---- MODULE Spec2Model ----
(***************************************************************************)
(* Building consolidation engine of city_shadow: the distance-based        *)
(* cluster merger (lib/style/building_merger.py), the area-threshold       *)
(* merger and the legacy roof assignment (lib/style/block_combiner.py).    *)
(*                                                                         *)
(* Geometry.  Coordinates are integers.  A Python float that is a quotient *)
(* is kept exact as a fraction <<n, d>> with d > 0 in lowest terms, so     *)
(* floating-point rounding is not modelled.  Footprints are axis-aligned   *)
(* rectangles standing on the line y = 0 (plus rings with too few points); *)
(* barrier features are north-south roads, railways and water bodies that  *)
(* span the whole model height, so a barrier geometry is a set of closed   *)
(* x-intervals (strips, bounds in tenths of a unit) and a segment meets    *)
(* the barrier exactly when its x-extent meets one of the strips.          *)
(* Python lists are 1-based sequences here; a Python dict is a function    *)
(* whose DOMAIN is its key set.                                            *)
(***************************************************************************)
EXTENDS Integers, Sequences, FiniteSets, TLC

VARIABLES
    style,            \* StyleManager.style
    features,         \* the feature mapping (StyleManager.current_features)
    pc,               \* position in the run
    buildings,        \* all_buildings argument of merge_nearby_buildings
    barrier_union,    \* barrier geometry the running merger consults
    visited,          \* indices already claimed by a cluster
    i,                \* index of the outer for-loop
    stack,            \* _build_cluster: pending indices
    cluster,          \* members (indices) of the cluster under construction
    clusters,         \* output list under construction
    members,          \* history: for each entry of clusters, its member indices
    result,           \* value returned by merge_nearby_buildings
    footprints,       \* _area_based_merge: gathered footprints
    small,            \* footprints below the area threshold
    large,            \* footprints at or above the area threshold
    cluster_union,    \* accumulated union of the cluster under construction
    total_area,       \* sum of the members' own areas
    weighted_height,  \* sum of height * area over the members
    growing,          \* flag of the grow loop
    BLOCK_TYPES,      \* BlockCombiner.BLOCK_TYPES, shared by all legacy draws
    processed,        \* legacy path: building records emitted so far
    pending_shapes,   \* legacy path: block shapes still to be processed
    block_info,       \* legacy path: _analyze_block result of the block
    style_settings,   \* argument of StyleManager.__init__
    manager,          \* which of the two StyleManager classes is constructed
    strategies        \* history: the merger strategies entered, in call order

areaLocals == <<footprints, small, large, cluster_union, total_area,
                weighted_height, growing>>

legacyLocals == <<BLOCK_TYPES, processed, pending_shapes, block_info>>

configLocals == <<style_settings, manager>>

vars == <<style, features, pc, buildings, barrier_union, visited, i, stack,
          cluster, clusters, members, result, areaLocals, legacyLocals,
          configLocals, strategies>>

---------------------------------------------------------------------------
(* Bounds of the model *)

MaxBuildings == 3

\* block shapes processed by one legacy run
MaxLegacyShapes == 3

---------------------------------------------------------------------------
(* Exact arithmetic *)

Abs(x) == IF x < 0 THEN -x ELSE x

Min(a, b) == IF a <= b THEN a ELSE b

Max(a, b) == IF a >= b THEN a ELSE b

RECURSIVE Gcd(_, _)
Gcd(a, b) == IF b = 0 THEN a ELSE Gcd(b, a % b)

\* Python's true division n / d for d > 0, as a fraction in lowest terms
Div(n, d) == LET g == Gcd(Abs(n), d) IN <<n \div g, d \div g>>

RECURSIVE SeqSum(_)
SeqSum(s) == IF s = <<>> THEN 0 ELSE Head(s) + SeqSum(Tail(s))

RECURSIVE Concat(_)
Concat(ss) == IF ss = <<>> THEN <<>> ELSE Head(ss) \o Concat(Tail(ss))

Range(s) == {s[k] : k \in 1..Len(s)}

\* dict.get(key, default)
Get(d, key, default) == IF key \in DOMAIN d THEN d[key] ELSE default

---------------------------------------------------------------------------
(* lib/geometry.py *)

\* Centroid of a point list: the vertex mean (sx/n, sy/n), kept as <<sx, sy, n>>
calculate_centroid(points) ==
    <<SeqSum([k \in 1..Len(points) |-> points[k][1]]),
      SeqSum([k \in 1..Len(points) |-> points[k][2]]),
      Len(points)>>

\* Square of the Euclidean distance of two centroids, as <<num, den>>
calculate_distance_sq(p1, p2) ==
    LET dx == p2[1] * p1[3] - p1[1] * p2[3]
        dy == p2[2] * p1[3] - p1[2] * p2[3]
    IN  <<dx * dx + dy * dy, (p1[3] * p2[3]) * (p1[3] * p2[3])>>

\* variant: the signed x-difference p2.x - p1.x stands for the distance
DistanceLess_signed_dx(p1, p2, d) ==
    d > 0 /\ p2[1] * p1[3] - p1[1] * p2[3] < d * p1[3] * p2[3]

\* calculate_distance(p1, p2) < d, decided on the squares (sqrt is monotone)
DistanceLess(p1, p2, d) ==
    LET q == calculate_distance_sq(p1, p2)
    IN  d > 0 /\ q[1] < d * d * q[2]

\* Shoelace formula, doubled: 2 * area before the final division
RECURSIVE ShoelaceSum(_, _, _)
ShoelaceSum(points, k, j) ==
    IF k > Len(points) THEN 0
    ELSE (points[j][1] + points[k][1]) * (points[j][2] - points[k][2])
         + ShoelaceSum(points, k + 1, k)

\* area of a ring of at least 3 points (the caller guards the length)
calculate_polygon_area(points) ==
    Div(Abs(ShoelaceSum(points, 1, Len(points))), 2)

---------------------------------------------------------------------------
(* Barrier geometry: strips *)

NoBarrier == [is_none |-> TRUE, strips |-> {}]

RECURSIVE SeqMin(_)
SeqMin(s) == IF Len(s) = 1 THEN s[1] ELSE Min(Head(s), SeqMin(Tail(s)))

RECURSIVE SeqMax(_)
SeqMax(s) == IF Len(s) = 1 THEN s[1] ELSE Max(Head(s), SeqMax(Tail(s)))

\* x-extent of a geometry after geom.buffer(buf), buf in tenths of a unit
BufferedStrip(coords, buf10) ==
    LET xs == [k \in 1..Len(coords) |-> coords[k][1]]
    IN  [lo |-> 10 * SeqMin(xs) - buf10, hi |-> 10 * SeqMax(xs) + buf10]

\* LineString([ptA, ptB]).intersects(geom) for a union of strips
Intersects(ptA, ptB, geom) ==
    \E s \in geom.strips :
        /\ (10 * ptA[1] <= s.hi * ptA[3] \/ 10 * ptB[1] <= s.hi * ptB[3])
        /\ (10 * ptA[1] >= s.lo * ptA[3] \/ 10 * ptB[1] >= s.lo * ptB[3])

---------------------------------------------------------------------------
(* Fractions <<n, d>>, d > 0 *)

QAdd(a, b) == Div(a[1] * b[2] + b[1] * a[2], a[2] * b[2])

QMul(a, b) == Div(a[1] * b[1], a[2] * b[2])

\* a / b for b > 0
QDiv(a, b) == Div(a[1] * b[2], a[2] * b[1])

QLess(a, b) == a[1] * b[2] < b[1] * a[2]

QLeq(a, b) == a[1] * b[2] <= b[1] * a[2]

RECURSIVE QSum(_)
QSum(s) == IF s = <<>> THEN <<0, 1>> ELSE QAdd(Head(s), QSum(Tail(s)))

---------------------------------------------------------------------------
(* lib/feature_processor/barrier_processor.py *)

\* Buffers are in tenths of a unit; water is not buffered.
create_barrier_union(roads, railways, water, road_buffer, railway_buffer) ==
    LET barrier_geoms ==
            {BufferedStrip(roads[k]["coords"], road_buffer) : k \in 1..Len(roads)}
            \cup {BufferedStrip(railways[k]["coords"], railway_buffer) :
                      k \in 1..Len(railways)}
            \cup {BufferedStrip(water[k]["coords"], 0) : k \in 1..Len(water)}
    IN  IF barrier_geoms # {}
        THEN [is_none |-> FALSE, strips |-> barrier_geoms]
        ELSE NoBarrier

\* road_buffer and railway_buffer passed by process_features (1.0), in tenths
DistanceRoadBuffer == 10

DistanceRailwayBuffer == 10

\* create_barrier_union has no try/except: LineString raises on a single
\* coordinate and Polygon on a ring of 1 or 2 coordinates
BarrierUnionRaises(roads, railways, water) ==
    \/ \E k \in 1..Len(roads) : Len(roads[k]["coords"]) = 1
    \/ \E k \in 1..Len(railways) : Len(railways[k]["coords"]) = 1
    \/ \E k \in 1..Len(water) : Len(water[k]["coords"]) \in {1, 2}

---------------------------------------------------------------------------
(* lib/style/artistic_effects.py *)

\* p - center, scaled by the (positive) denominator of the centre
AngleVector(p, center) ==
    <<center[3] * p[1] - center[1], center[3] * p[2] - center[2]>>

\* atan2 ranges over (-pi, pi]: below the axis, angle 0, above the axis, pi
AngleBand(v) ==
    IF v[2] < 0 THEN 0
    ELSE IF v[2] = 0 /\ v[1] >= 0 THEN 1
    ELSE IF v[2] > 0 THEN 2
    ELSE 3

\* atan2(a) < atan2(b)
AngleLess(a, b) ==
    IF AngleBand(a) # AngleBand(b) THEN AngleBand(a) < AngleBand(b)
    ELSE IF AngleBand(a) \in {1, 3} THEN FALSE
    ELSE a[1] * b[2] - a[2] * b[1] > 0

RECURSIVE SortedInsert(_, _, _)
SortedInsert(sorted, p, center) ==
    IF sorted = <<>> THEN <<p>>
    ELSE IF AngleLess(AngleVector(p, center), AngleVector(Head(sorted), center))
         THEN <<p>> \o sorted
         ELSE <<Head(sorted)>> \o SortedInsert(Tail(sorted), p, center)

\* sorted(points, key=atan2(...)): a stable sort
RECURSIVE _sort_points_by_angle(_, _, _)
_sort_points_by_angle(points, k, center) ==
    IF k = 0 THEN <<>>
    ELSE SortedInsert(_sort_points_by_angle(points, k - 1, center),
                      points[k], center)

\* detail_level <= 0.5: no intermediate points are added
_generate_hull_points(sorted_points) == sorted_points

\* height_variance = 0: every per-vertex offset of the modern and classic
\* styles is 0; minimal and block-combine return coords unchanged
_add_artistic_variation(coords) == coords

create_artistic_hull(points) ==
    IF Len(points) < 3 THEN points
    ELSE _add_artistic_variation(_generate_hull_points(
             _sort_points_by_angle(points, Len(points),
                                   calculate_centroid(points))))

---------------------------------------------------------------------------
(* lib/style/building_merger.py *)

_index_buildings(blds) ==
    [idx \in 1..Len(blds) |->
        <<idx, calculate_centroid(blds[idx]["coords"]), blds[idx]>>]

\* variant: an empty building list is an error
IndexBuildingsRaises_on_empty_list(blds) ==
    \/ blds = <<>>
    \/ \E k \in 1..Len(blds) : blds[k]["coords"] = <<>>

\* _index_buildings raises ValueError (from calculate_centroid) when a
\* building has no points
IndexBuildingsRaises(blds) ==
    \E k \in 1..Len(blds) : blds[k]["coords"] = <<>>

\* variant: the barrier is never consulted
_is_blocked_never(ptA, ptB, barrier) == FALSE

_is_blocked(ptA, ptB, barrier) ==
    IF barrier.is_none THEN FALSE ELSE Intersects(ptA, ptB, barrier)

\* variant: dist <= merge_dist
WithinMergeDist_inclusive(centroidA, centroidB, merge_dist) ==
    LET q == calculate_distance_sq(centroidA, centroidB)
    IN  merge_dist > 0 /\ q[1] <= merge_dist * merge_dist * q[2]

\* dist < merge_dist
WithinMergeDist(centroidA, centroidB, merge_dist) ==
    DistanceLess(centroidA, centroidB, merge_dist)

\* the for-j loop of _build_cluster for the popped index cur
RECURSIVE ScanNeighbours(_, _, _, _, _, _, _)
ScanNeighbours(indexed, cur, j, vis, stk, barrier, merge_dist) ==
    IF j > Len(indexed) THEN [visited |-> vis, stack |-> stk]
    ELSE IF /\ j \notin vis
            /\ WithinMergeDist(indexed[cur][2], indexed[j][2], merge_dist)
            /\ ~_is_blocked(indexed[cur][2], indexed[j][2], barrier)
         THEN ScanNeighbours(indexed, cur, j + 1, vis \cup {j}, Append(stk, j),
                             barrier, merge_dist)
         ELSE ScanNeighbours(indexed, cur, j + 1, vis, stk, barrier, merge_dist)

\* _build_cluster from a stack on: the member indices in the order they are
\* appended, and visited afterwards
RECURSIVE _build_cluster(_, _, _, _, _, _)
_build_cluster(indexed, stk, vis, cl, barrier, merge_dist) ==
    IF stk = <<>> THEN [cluster |-> cl, visited |-> vis]
    ELSE LET current_idx == stk[Len(stk)]
             scan == ScanNeighbours(indexed, current_idx, 1, vis,
                                    SubSeq(stk, 1, Len(stk) - 1),
                                    barrier, merge_dist)
         IN  _build_cluster(indexed, scan.stack, scan.visited,
                            Append(cl, current_idx), barrier, merge_dist)

\* the for-i loop of _merge_by_distance from index k on: the member indices
\* of each cluster, in output order
RECURSIVE ClustersFrom(_, _, _, _, _)
ClustersFrom(indexed, k, vis, barrier, merge_dist) ==
    IF k > Len(indexed) THEN <<>>
    ELSE IF k \in vis
    THEN ClustersFrom(indexed, k + 1, vis, barrier, merge_dist)
    ELSE LET built == _build_cluster(indexed, <<k>>, vis \cup {k}, <<>>,
                                     barrier, merge_dist)
         IN  <<built.cluster>>
             \o ClustersFrom(indexed, k + 1, built.visited, barrier, merge_dist)

\* variant: records with fewer than 3 points are filtered out
PassthroughResult_filtered(blds) ==
    SelectSeq(blds, LAMBDA b : Len(b["coords"]) >= 3)

\* "if merge_dist <= 0: return buildings"
PassthroughResult(blds) == blds

\* variant: every member weighs the same
MemberArea_unweighted(b) == <<1, 1>>

\* weight of one member in the height average
MemberArea(b) == calculate_polygon_area(b["coords"])

\* _merge_cluster raises ValueError (from calculate_polygon_area) when a
\* member of a cluster of two or more has fewer than 3 points
MergeClusterRaises(cl) ==
    Len(cl) > 1 /\ \E k \in 1..Len(cl) : Len(cl[k]["coords"]) < 3

_merge_cluster(cl) ==
    IF Len(cl) = 1 THEN cl[1]
    ELSE
      LET area_sum == QSum([k \in 1..Len(cl) |-> MemberArea(cl[k])])
          height_sum ==
              QSum([k \in 1..Len(cl) |-> QMul(cl[k]["height"], MemberArea(cl[k]))])
          all_coords == Concat([k \in 1..Len(cl) |-> cl[k]["coords"]])
          avg_height == IF area_sum[1] > 0
                        THEN QDiv(height_sum, area_sum)
                        ELSE cl[1]["height"]
      IN  [coords |-> create_artistic_hull(all_coords),
           height |-> avg_height,
           is_cluster |-> TRUE,
           size |-> Len(cl)]

---------------------------------------------------------------------------
(* lib/style_manager.py: the distance merge of the converter's manager *)

StyleManager_is_blocked_by_barrier(ptA, ptB, barrier) ==
    IF barrier.is_none THEN FALSE ELSE Intersects(ptA, ptB, barrier)

\* the for-j loop of _merge_buildings_by_distance for the popped index cur
RECURSIVE StyleManagerScan(_, _, _, _, _, _, _)
StyleManagerScan(indexed, cur, j, vis, stk, barrier, merge_dist) ==
    IF j > Len(indexed) THEN [visited |-> vis, stack |-> stk]
    ELSE IF j \in vis
    THEN StyleManagerScan(indexed, cur, j + 1, vis, stk, barrier, merge_dist)
    ELSE IF /\ DistanceLess(indexed[cur][2], indexed[j][2], merge_dist)
            /\ ~StyleManager_is_blocked_by_barrier(indexed[cur][2],
                                                   indexed[j][2], barrier)
    THEN StyleManagerScan(indexed, cur, j + 1, vis \cup {j}, Append(stk, j),
                          barrier, merge_dist)
    ELSE StyleManagerScan(indexed, cur, j + 1, vis, stk, barrier, merge_dist)

\* "while stack": the indices appended to cluster_bldgs, and visited
RECURSIVE StyleManagerWhileStack(_, _, _, _, _, _)
StyleManagerWhileStack(indexed, stk, vis, cluster_bldgs, barrier, merge_dist) ==
    IF stk = <<>> THEN [cluster |-> cluster_bldgs, visited |-> vis]
    ELSE LET current_idx == stk[Len(stk)]
             scan == StyleManagerScan(indexed, current_idx, 1, vis,
                                      SubSeq(stk, 1, Len(stk) - 1),
                                      barrier, merge_dist)
         IN  StyleManagerWhileStack(indexed, scan.stack, scan.visited,
                                    Append(cluster_bldgs, current_idx),
                                    barrier, merge_dist)

\* "for i, centroidA, bldgA in indexed_buildings" from index k on
RECURSIVE StyleManagerForEach(_, _, _, _, _)
StyleManagerForEach(indexed, k, vis, barrier, merge_dist) ==
    IF k > Len(indexed) THEN <<>>
    ELSE IF k \in vis
    THEN StyleManagerForEach(indexed, k + 1, vis, barrier, merge_dist)
    ELSE LET built == StyleManagerWhileStack(indexed, <<k>>, vis \cup {k}, <<>>,
                                             barrier, merge_dist)
         IN  <<built.cluster>>
             \o StyleManagerForEach(indexed, k + 1, built.visited, barrier,
                                    merge_dist)

\* detail_level <= 0.5 and height_variance = 0: the points sorted by angle
_create_artistic_hull(points) ==
    IF Len(points) < 3 THEN points
    ELSE _sort_points_by_angle(points, Len(points), calculate_centroid(points))

_merge_building_cluster(cl) ==
    IF Len(cl) = 1 THEN cl[1]
    ELSE
      LET areas == [k \in 1..Len(cl) |-> calculate_polygon_area(cl[k]["coords"])]
          total == QSum(areas)
          weighted ==
              QSum([k \in 1..Len(cl) |-> QMul(cl[k]["height"], areas[k])])
          all_coords == Concat([k \in 1..Len(cl) |-> cl[k]["coords"]])
      IN  [coords |-> _create_artistic_hull(all_coords),
           height |-> IF total[1] > 0
                      THEN QDiv(weighted, total)
                      ELSE cl[1]["height"],
           is_cluster |-> TRUE,
           size |-> Len(cl)]

\* _merge_buildings_by_distance: the returned list, and as history the
\* member indices of each record in the order they were visited
_merge_buildings_by_distance(blds, barrier, merge_dist) ==
    IF merge_dist <= 0
    THEN [clusters |-> blds, members |-> [k \in 1..Len(blds) |-> <<k>>]]
    ELSE LET indexed == [idx \in 1..Len(blds) |->
                            <<idx, calculate_centroid(blds[idx]["coords"]),
                              blds[idx]>>]
             visits == StyleManagerForEach(indexed, 1, {}, barrier, merge_dist)
         IN  [clusters |->
                  [k \in 1..Len(visits) |->
                      _merge_building_cluster(
                          [n \in 1..Len(visits[k]) |-> blds[visits[k][n]]])],
              members |-> visits]

---------------------------------------------------------------------------
(* shapely geometry of the footprints.  Every valid footprint is a          *)
(* rectangle on the same y-extent, so a Polygon or MultiPolygon is the set  *)
(* xs of unit columns [k, k+1] it covers, with that y-extent; its parts are *)
(* the maximal runs of consecutive columns.                                 *)

EmptyGeometry ==
    [geom_type |-> "GeometryCollection", exterior |-> <<>>, xs |-> {},
     y0 |-> 0, y1 |-> 0]

PartCount(xs) == Cardinality({k \in xs : k - 1 \notin xs})

\* ring of the rectangle over columns lo..hi, closed as shapely closes it
RectangleRing(lo, hi, y0, y1) ==
    << <<lo, y0>>, <<hi + 1, y0>>, <<hi + 1, y1>>, <<lo, y1>>, <<lo, y0>> >>

SetMin(S) == CHOOSE m \in S : \A k \in S : m <= k

SetMax(S) == CHOOSE m \in S : \A k \in S : m >= k

\* geometry over the columns xs
Region(xs, y0, y1) ==
    [geom_type |-> IF PartCount(xs) = 1 THEN "Polygon" ELSE "MultiPolygon",
     exterior |-> IF PartCount(xs) = 1
                  THEN RectangleRing(SetMin(xs), SetMax(xs), y0, y1)
                  ELSE <<>>,
     xs |-> xs, y0 |-> y0, y1 |-> y1]

\* Polygon(coords): the exterior keeps the given points and is closed
Polygon(coords) ==
    LET px == [k \in 1..Len(coords) |-> coords[k][1]]
        py == [k \in 1..Len(coords) |-> coords[k][2]]
    IN  [geom_type |-> "Polygon",
         exterior |-> IF coords[1] = coords[Len(coords)]
                      THEN coords ELSE Append(coords, coords[1]),
         xs |-> SeqMin(px)..(SeqMax(px) - 1),
         y0 |-> SeqMin(py), y1 |-> SeqMax(py)]

\* orientation of c against the directed line a -> b
Orient(a, b, c) ==
    (b[1] - a[1]) * (c[2] - a[2]) - (b[2] - a[2]) * (c[1] - a[1])

\* the open segments a-b and c-d cross in one interior point
ProperlyCross(a, b, c, d) ==
    /\ Orient(a, b, c) * Orient(a, b, d) < 0
    /\ Orient(c, d, a) * Orient(c, d, b) < 0

\* poly.is_valid and not poly.is_empty, for a ring of at least 3 points:
\* positive area and no two edges crossing
is_valid(coords) ==
    LET n == Len(coords)
        nxt(k) == IF k = n THEN 1 ELSE k + 1
    IN  /\ ShoelaceSum(coords, 1, n) # 0
        /\ \A k, m \in 1..n :
               ~ProperlyCross(coords[k], coords[nxt(k)], coords[m], coords[nxt(m)])

\* geom.area
area(geom) == Cardinality(geom.xs) * (geom.y1 - geom.y0)

RECURSIVE SetSum(_)
SetSum(S) == IF S = {} THEN 0 ELSE LET m == SetMax(S) IN m + SetSum(S \ {m})

\* geom.centroid, as <<sx, sy, n>> like calculate_centroid: the mean of the
\* column centres k + 1/2 and the middle of the y-extent
centroid(geom) ==
    LET n == Cardinality(geom.xs)
    IN  <<2 * SetSum(geom.xs) + n, (geom.y0 + geom.y1) * n, 2 * n>>

\* a.distance(b) < d for two non-empty geometries on the same y-extent
DistanceWithin(a, b, d) ==
    /\ d > 0
    /\ \E ka \in a.xs, kb \in b.xs : Max(0, Abs(ka - kb) - 1) < d

\* make_valid(unary_union([a, b]))
unary_union(a, b) ==
    Region(a.xs \cup b.xs, Min(a.y0, b.y0), Max(a.y1, b.y1))

\* geom.buffer(r).buffer(-r) with 2r = merge_dist: gaps between neighbouring
\* parts that are narrower than merge_dist are bridged (modelled as filled)
buffer_round_trip(geom, merge_dist) ==
    LET bridged == {k \in SetMin(geom.xs)..SetMax(geom.xs) :
                       /\ k \notin geom.xs
                       /\ LET lo == SetMax({a \in geom.xs : a < k})
                              hi == SetMin({a \in geom.xs : a > k})
                          IN  hi - lo - 1 < merge_dist}
    IN  Region(geom.xs \cup bridged, geom.y0, geom.y1)

\* geom.convex_hull
convex_hull(geom) ==
    Region(SetMin(geom.xs)..SetMax(geom.xs), geom.y0, geom.y1)

\* list(geom.exterior.coords)[:-1]
ExteriorCoords(geom) == SubSeq(geom.exterior, 1, Len(geom.exterior) - 1)

---------------------------------------------------------------------------
(* lib/style/block_combiner.py *)

AREA_THRESHOLD == 200

\* road buffer of _create_barrier_union, in tenths: road_width * 0.2 with
\* Config.DEFAULT_LAYER_SPECS["roads"]["width"] = 1.0
BlockRoadBuffer == 2

\* water buffer of _create_barrier_union, in tenths: poly.buffer(1.5)
BlockWaterBuffer == 15

\* the six styles built by _select_random_roof; uniform(a, b) and
\* randint(a, b) are sampled at their two ends (pitched, tiered, sawtooth)
\* or at their middle
RandomRoofs ==
    {[name |-> "pitched", height_factor |-> f] : f \in {<<1, 5>>, <<2, 5>>}}
    \cup {[name |-> "tiered", levels |-> n] : n \in {2, 4}}
    \cup {[name |-> "flat", border |-> <<1, 1>>]}
    \cup {[name |-> "sawtooth", angle |-> n] : n \in {25, 35}}
    \cup {[name |-> "modern", setback |-> <<2, 1>>]}
    \cup {[name |-> "stepped", levels |-> 3]}

\* one loop of _gather_all_footprints; source is history: the position of the
\* record in buildings + industrial
RECURSIVE GatherFrom(_, _, _, _)
GatherFrom(records, k, default_height, offset) ==
    IF k > Len(records) THEN <<>>
    ELSE LET bldg == records[k]
             coords == Get(bldg, "coords", <<>>)
         IN  (IF Len(coords) >= 3 /\ is_valid(coords)
              THEN <<[polygon |-> Polygon(coords),
                      height |-> Get(bldg, "height", <<default_height, 1>>),
                      area |-> area(Polygon(coords)),
                      original |-> bldg,
                      source |-> offset + k]>>
              ELSE <<>>)
             \o GatherFrom(records, k + 1, default_height, offset)

_gather_all_footprints(feats) ==
    GatherFrom(Get(feats, "buildings", <<>>), 1, 10, 0)
    \o GatherFrom(Get(feats, "industrial", <<>>), 1, 15,
                  Len(Get(feats, "buildings", <<>>)))

\* roads and water only; a feature whose geometry cannot be built is skipped
_create_barrier_union(feats) ==
    LET roads == Get(feats, "roads", <<>>)
        water == Get(feats, "water", <<>>)
        barriers ==
            {BufferedStrip(roads[k]["coords"], BlockRoadBuffer) :
                 k \in {m \in 1..Len(roads) : Len(roads[m]["coords"]) >= 2}}
            \cup {BufferedStrip(water[k]["coords"], BlockWaterBuffer) :
                 k \in {m \in 1..Len(water) :
                           /\ Len(water[m]["coords"]) >= 3
                           /\ is_valid(water[m]["coords"])}}
    IN  IF barriers = {} THEN NoBarrier
        ELSE [is_none |-> FALSE, strips |-> barriers]

_is_blocked_by_barrier(ptA, ptB, barrier) ==
    IF barrier.is_none THEN FALSE ELSE Intersects(ptA, ptB, barrier)

\* variant: area > AREA_THRESHOLD
IsLarge_exclusive(fp) == fp["area"] > AREA_THRESHOLD

\* fp['area'] >= AREA_THRESHOLD
IsLarge(fp) == fp["area"] >= AREA_THRESHOLD

\* variant: the seed is not marked visited
MarkSeed_forgotten(vis, seed) == vis

\* visited.add(i) for the seed of a cluster
MarkSeed(vis, seed) == vis \cup {seed}

\* variant: an absorption does not ask for another pass
GrowingAfterAbsorb_never(g) == g

\* "growing = True" after an absorption
GrowingAfterAbsorb(g) == TRUE

\* variant: every cluster is tagged, singletons too
IsMergedCluster_always(cl) == Len(cl) >= 1

\* len(cluster) > 1
IsMergedCluster(cl) == Len(cl) > 1

\* one pass "for j, candidate in enumerate(small)" of the grow loop; st holds
\* cluster, visited, cluster_union, total_area, weighted_height, growing
RECURSIVE ScanCandidates(_, _, _, _, _)
ScanCandidates(smalls, j, st, barrier, merge_dist) ==
    IF j > Len(smalls) THEN st
    ELSE IF /\ j \notin st.visited
            /\ DistanceWithin(smalls[j]["polygon"], st.cluster_union, merge_dist)
            /\ ~_is_blocked_by_barrier(centroid(st.cluster_union),
                                       centroid(smalls[j]["polygon"]), barrier)
         THEN ScanCandidates(smalls, j + 1,
                  [cluster |-> Append(st.cluster, j),
                   visited |-> st.visited \cup {j},
                   cluster_union |-> unary_union(st.cluster_union,
                                                 smalls[j]["polygon"]),
                   total_area |-> st.total_area + smalls[j]["area"],
                   weighted_height |->
                       QAdd(st.weighted_height,
                            QMul(Get(smalls[j], "height", <<10, 1>>),
                                 <<smalls[j]["area"], 1>>)),
                   growing |-> GrowingAfterAbsorb(st.growing)],
                  barrier, merge_dist)
         ELSE ScanCandidates(smalls, j + 1, st, barrier, merge_dist)

\* "Force merge if needed": reduce a multi-part union to one polygon
ForceMerge(geom, merge_dist) ==
    IF geom.geom_type # "Polygon"
    THEN LET combined == buffer_round_trip(geom, merge_dist)
         IN  IF combined.geom_type # "Polygon"
             THEN convex_hull(combined)
             ELSE combined
    ELSE geom

\* variant: the weighted sum is divided by the area of the merged shape
ClusterRecord_union_area(cl, geom, tot, weighted, roof_style) ==
    LET coords == IF geom.geom_type = "Polygon"
                  THEN ExteriorCoords(geom)
                  ELSE ExteriorCoords(convex_hull(geom))
        avg_height == IF area(geom) > 0 THEN QDiv(weighted, <<area(geom), 1>>)
                      ELSE <<4, 1>>
    IN  IF IsMergedCluster(cl)
        THEN [coords |-> coords, height |-> avg_height, is_cluster |-> TRUE,
              roof_style |-> roof_style["name"], roof_params |-> roof_style]
        ELSE [coords |-> coords, height |-> avg_height, is_cluster |-> FALSE]

\* the record appended to merged_clusters for a finished cluster
ClusterRecord(cl, geom, tot, weighted, roof_style) ==
    LET coords == IF geom.geom_type = "Polygon"
                  THEN ExteriorCoords(geom)
                  ELSE ExteriorCoords(convex_hull(geom))
        avg_height == IF tot > 0 THEN QDiv(weighted, <<tot, 1>>) ELSE <<4, 1>>
    IN  IF IsMergedCluster(cl)
        THEN [coords |-> coords, height |-> avg_height, is_cluster |-> TRUE,
              roof_style |-> roof_style["name"], roof_params |-> roof_style]
        ELSE [coords |-> coords, height |-> avg_height, is_cluster |-> FALSE]

\* the record built for a large footprint
LargeRecord(fp) ==
    [coords |-> ExteriorCoords(fp["polygon"]),
     height |-> Get(fp, "height", <<10, 1>>),
     is_cluster |-> FALSE]

\* variant: the small clusters are returned before the large footprints
OrderedOutput_clusters_first(large_buildings, merged_clusters) ==
    merged_clusters \o large_buildings

\* return large_buildings + merged_clusters
OrderedOutput(large_buildings, merged_clusters) ==
    large_buildings \o merged_clusters

\* number of building shapes _legacy_combine processes.  Without a barrier
\* (or with an empty one) _create_blocks_from_barriers returns no block, and
\* a block without footprints yields no shape; otherwise the number depends
\* on the block geometry, which is left open here.
ProcessedShapeCounts(barrier, fps) ==
    IF barrier.is_none \/ fps = <<>> THEN {0} ELSE 0..MaxLegacyShapes

\* BLOCK_TYPES as built by BlockCombiner.__init__
InitialBlockTypes ==
    [residential |->
        [min_height |-> 10, max_height |-> 25,
         roof_styles |-> << [name |-> "pitched", height_factor |-> <<3, 10>>],
                            [name |-> "tiered", levels |-> 2],
                            [name |-> "flat", border |-> <<1, 1>>] >>],
     industrial |->
        [min_height |-> 15, max_height |-> 35,
         roof_styles |-> << [name |-> "sawtooth", angle |-> 30],
                            [name |-> "flat", border |-> <<2, 1>>],
                            [name |-> "stepped", levels |-> 2] >>],
     commercial |->
        [min_height |-> 20, max_height |-> 40,
         roof_styles |-> << [name |-> "modern", setback |-> <<2, 1>>],
                            [name |-> "tiered", levels |-> 2],
                            [name |-> "complex", variations |-> 5] >>]]

\* the random draws of _select_roof_style: uniform(0.8, 1.2) and
\* uniform(0.9, 1.1) at their ends, randint(-1, 1) and randint(-5, 5) at
\* their ends and at 0
RoofDraws(name) ==
    IF name = "pitched" THEN {<<4, 5>>, <<6, 5>>}
    ELSE IF name \in {"flat", "modern"} THEN {<<9, 10>>, <<11, 10>>}
    ELSE IF name \in {"tiered", "stepped"} THEN {-1, 0, 1}
    ELSE IF name = "sawtooth" THEN {-5, 0, 5}
    ELSE {0}

\* "Randomize parameters based on roof type": the new value of the chosen
\* dict, which is the dict stored in BLOCK_TYPES
RandomizedChoice(choice, draw) ==
    IF choice["name"] = "pitched"
    THEN [choice EXCEPT !["height_factor"] = QMul(@, draw)]
    ELSE IF choice["name"] = "tiered"
    THEN [choice EXCEPT !["levels"] = Max(1, @ + draw)]
    ELSE IF choice["name"] = "flat"
    THEN [choice EXCEPT !["border"] = QMul(@, draw)]
    ELSE IF choice["name"] = "sawtooth"
    THEN [choice EXCEPT !["angle"] = Max(10, @ + draw)]
    ELSE IF choice["name"] = "modern"
    THEN [choice EXCEPT !["setback"] = QMul(@, draw)]
    ELSE IF choice["name"] = "stepped"
    THEN [choice EXCEPT !["levels"] = Max(2, @ + draw)]
    ELSE choice

\* BLOCK_TYPES.get(block_type, BLOCK_TYPES['residential'])
BlockTypeKey(block_types, block_type) ==
    IF block_type \in DOMAIN block_types THEN block_type ELSE "residential"

QMin(a, b) == IF QLeq(a, b) THEN a ELSE b

QMax(a, b) == IF QLeq(b, a) THEN a ELSE b

\* random.uniform(0.85, 1.15) at its ends and at 1
Variations == {<<17, 20>>, <<1, 1>>, <<23, 20>>}

\* variant: the candidate is returned without the final min/max
_calculate_building_height_unconstrained(avg_height, type_specs, variation) ==
    LET min_h == <<type_specs["min_height"], 1>>
        floor == QMax(avg_height, min_h)
        base == IF QLess(floor, <<15, 1>>) THEN <<15, 1>> ELSE floor
    IN  QMul(base, variation)

\* _calculate_building_height with variation as the value random.uniform
\* returned
_calculate_building_height(avg_height, type_specs, variation) ==
    LET min_h == <<type_specs["min_height"], 1>>
        max_h == <<type_specs["max_height"], 1>>
        floor == QMax(avg_height, min_h)
        base == IF QLess(floor, <<15, 1>>) THEN <<15, 1>> ELSE floor
        candidate == QMul(base, variation)
    IN  QMax(min_h, QMin(candidate, max_h))

\* the keys of type_counts, in the order max() meets them
TypeOrder == <<"residential", "industrial", "commercial">>

\* _analyze_block: area-weighted average height and predominant type; a
\* footprint counts under b.get('type', 'residential')
_analyze_block(block_buildings) ==
    IF block_buildings = <<>>
    THEN [type |-> "residential", avg_height |-> <<15, 1>>]
    ELSE LET n == Len(block_buildings)
             typ(k) == LET t == Get(block_buildings[k], "type", "residential")
                       IN  IF t \in Range(TypeOrder) THEN t ELSE "residential"
             type_counts == [t \in Range(TypeOrder) |->
                                Cardinality({k \in 1..n : typ(k) = t})]
             first == CHOOSE m \in 1..3 :
                          /\ \A q \in 1..3 :
                                 type_counts[TypeOrder[q]]
                                     <= type_counts[TypeOrder[m]]
                          /\ \A q \in 1..(m - 1) :
                                 type_counts[TypeOrder[q]]
                                     < type_counts[TypeOrder[m]]
             total == SeqSum([k \in 1..n |-> area(block_buildings[k]["polygon"])])
             weighted == QSum([k \in 1..n |->
                             QMul(block_buildings[k]["height"],
                                  <<area(block_buildings[k]["polygon"]), 1>>)])
         IN  [type |-> TypeOrder[first],
              avg_height |-> IF total > 0 THEN QDiv(weighted, <<total, 1>>)
                             ELSE <<15, 1>>,
              building_count |-> n,
              total_area |-> total]

\* type of the block being processed: its buildings are the gathered
\* footprints, copied by _find_buildings_in_block
AnalyzedBlockType == block_info["type"]

---------------------------------------------------------------------------
(* Inputs: the feature mapping handed over by feature extraction *)

\* an axis-aligned footprint ring [x0, x0 + w] x [0, 10]
Rect(x0, w) == << <<x0, 0>>, <<x0 + w, 0>>, <<x0 + w, 10>>, <<x0, 10>> >>

\* record appended by BuildingProcessor.process_building
Building(coords, h) == [coords |-> coords, height |-> <<h, 1>>]

\* record appended by IndustrialProcessor.process_industrial_building
Industrial(b) ==
    [coords |-> b["coords"], height |-> b["height"],
     is_industrial |-> TRUE, building_type |-> "industrial"]

FootprintCatalogue ==
    { Building(Rect(0, 10), 10),      \* area 100
      Building(Rect(10, 10), 30),     \* area 100, touches the first
      Building(Rect(20, 10), 10),     \* area 100
      Building(Rect(5, 5), 30),       \* area 50, inside the first
      Building(Rect(15, 5), 20),      \* area 50
      Building(Rect(20, 20), 30),     \* area 200
      Building(<< <<12, 0>>, <<14, 0>> >>, 10) }   \* a ring of 2 points

RECURSIVE ListsOfLength(_)
ListsOfLength(n) ==
    IF n = 0 THEN {<<>>}
    ELSE {Append(l, b) : l \in ListsOfLength(n - 1), b \in FootprintCatalogue}

BuildingLists ==
    {l \in UNION {ListsOfLength(n) : n \in 0..MaxBuildings} :
        Cardinality(Range(l)) = Len(l)}

\* a north-south road or railway through x
LineFeature(x) == [coords |-> << <<x, -100>>, <<x, 100>> >>]

\* a north-south water body [x0, x1]
WaterFeature(x0, x1) ==
    [coords |-> << <<x0, -100>>, <<x1, -100>>, <<x1, 100>>, <<x0, 100>> >>,
     type |-> "unknown"]

\* a road with a single coordinate
MalformedRoad == [coords |-> << <<20, 0>> >>]

BarrierChoices ==
    { [roads |-> <<>>, railways |-> <<>>, water |-> <<>>],
      [roads |-> <<LineFeature(20)>>, railways |-> <<>>, water |-> <<>>],
      [roads |-> <<>>, railways |-> <<LineFeature(20)>>, water |-> <<>>],
      [roads |-> <<>>, railways |-> <<>>, water |-> <<WaterFeature(11, 12)>>],
      [roads |-> <<MalformedRoad>>, railways |-> <<>>, water |-> <<>>] }

MergeDistances == {-10, 0, 10, 15}

DistanceStyles == {"modern", "classic", "minimal"}

\* footprints that feature extraction may file under industrial
IndustrialCatalogue == {Building(Rect(20, 10), 10), Building(Rect(20, 20), 30)}

\* the feature mappings: the last record of a list may come from the
\* industrial bucket
FeatureMappings ==
    UNION {
      {[buildings |-> SubSeq(l, 1, Len(l) - n),
        industrial |-> [k \in 1..n |-> Industrial(l[Len(l) - n + k])],
        roads |-> bar.roads, railways |-> bar.railways, water |-> bar.water] :
          n \in {m \in 0..1 : m = 1 => /\ Len(l) >= 1
                                       /\ l[Len(l)] \in IndustrialCatalogue},
          bar \in BarrierChoices} :
      l \in BuildingLists}

StyleSettings(styles) ==
    {[merge_distance |-> md, cluster_size |-> 3, height_variance |-> 0,
      detail_level |-> 0, artistic_style |-> st, min_building_area |-> 200] :
        md \in MergeDistances, st \in styles}

---------------------------------------------------------------------------
(* lib/style/style_manager.py, lib/style_manager.py, lib/config.py *)

ARTISTIC_STYLES == {"modern", "classic", "minimal", "block-combine"}

\* Config.DEFAULT_STYLE
DEFAULT_STYLE ==
    [merge_distance |-> 2, cluster_size |-> 3, height_variance |-> <<1, 5>>,
     detail_level |-> 1, artistic_style |-> "modern",
     min_building_area |-> 200]

\* the defaults written out in lib/style_manager.py
LegacyDefaultStyle ==
    [merge_distance |-> 2, cluster_size |-> 3, height_variance |-> <<1, 5>>,
     detail_level |-> 1, artistic_style |-> "modern",
     min_building_area |-> 600]

ValidatingManager == "lib/style/style_manager.py"

ConverterManager == "lib/style_manager.py"

\* _validate_and_update_style raises ValueError
ValidateRaises(settings) ==
    /\ "artistic_style" \in DOMAIN settings
    /\ settings["artistic_style"] \notin ARTISTIC_STYLES

\* _validate_and_update_style: only keys of DEFAULT_STYLE are taken over
_validate_and_update_style(st, settings) ==
    [key \in DOMAIN st |->
        IF key \in DOMAIN settings THEN settings[key] ELSE st[key]]

\* self.style.update(style_settings) of lib/style_manager.py
StyleUpdate(st, settings) ==
    [key \in DOMAIN st \cup DOMAIN settings |->
        IF key \in DOMAIN settings THEN settings[key] ELSE st[key]]

\* BlockCombiner.combine_buildings_by_block: the method it runs
combine_buildings_by_block(st) ==
    IF Get(st, "artistic_style", "") = "block-combine"
    THEN "_area_based_merge" ELSE "_legacy_combine"

\* BuildingMerger.merge_buildings: the method it runs
merge_buildings(st) ==
    IF st["artistic_style"] = "block-combine"
    THEN combine_buildings_by_block(st) ELSE "_merge_by_distance"

\* variant: the style is not consulted
merge_nearby_buildings_distance_only(st) == "_merge_by_distance"

\* StyleManager.merge_nearby_buildings: the method it runs
merge_nearby_buildings(st) ==
    IF st["artistic_style"] = "block-combine"
    THEN combine_buildings_by_block(st) ELSE merge_buildings(st)

---------------------------------------------------------------------------
(* The run *)

\* the locals of the mergers before either runs
InitWorking ==
    /\ visited = {}
    /\ i = 1
    /\ stack = <<>>
    /\ cluster = <<>>
    /\ clusters = <<>>
    /\ members = <<>>
    /\ result = <<>>
    /\ footprints = <<>>
    /\ small = <<>>
    /\ large = <<>>
    /\ cluster_union = EmptyGeometry
    /\ total_area = 0
    /\ weighted_height = <<0, 1>>
    /\ growing = FALSE
    /\ BLOCK_TYPES = InitialBlockTypes
    /\ processed = <<>>
    /\ block_info = _analyze_block(<<>>)
    /\ strategies = <<>>

InitLocals ==
    /\ buildings = <<>>
    /\ barrier_union = NoBarrier
    /\ InitWorking

InitWith(styles) ==
    /\ style \in StyleSettings(styles)
    /\ style_settings = style
    /\ manager = ValidatingManager
    /\ features \in FeatureMappings
    /\ pc = "process_features"
    /\ pending_shapes = 0
    /\ InitLocals

\* FeatureProcessor.process_features, from set_current_features on: build the
\* barrier and the flat building list
ProcessFeatures ==
    /\ pc = "process_features"
    /\ IF BarrierUnionRaises(features.roads, features.railways, features.water)
       THEN /\ pc' = "raised"
            /\ UNCHANGED <<barrier_union, buildings>>
       ELSE /\ barrier_union' = create_barrier_union(features.roads,
                                     features.railways, features.water,
                                     DistanceRoadBuffer, DistanceRailwayBuffer)
            /\ buildings' = features.buildings \o features.industrial
            /\ pc' = "merge_nearby_buildings"
    /\ UNCHANGED <<strategies, legacyLocals, areaLocals, configLocals, style, features, visited, i, stack, cluster, clusters,
                   members, result>>

\* StyleManager.merge_nearby_buildings -> BuildingMerger.merge_buildings ->
\* _merge_by_distance up to the for loop
MergeByDistance ==
    /\ pc = "merge_nearby_buildings"
    /\ merge_nearby_buildings(style) = "_merge_by_distance"
    /\ strategies' = Append(strategies, "_merge_by_distance")
    /\ IF style.merge_distance <= 0
       THEN /\ result' = PassthroughResult(buildings)
            /\ members' = [k \in 1..Len(buildings) |-> <<k>>]
            /\ pc' = "done"
       ELSE IF IndexBuildingsRaises(buildings)
       THEN /\ pc' = "raised"
            /\ UNCHANGED <<result, members>>
       ELSE /\ pc' = "for_i"
            /\ UNCHANGED <<result, members>>
    /\ visited' = {}
    /\ clusters' = <<>>
    /\ i' = 1
    /\ UNCHANGED <<legacyLocals, areaLocals, configLocals, style, features, buildings, barrier_union, stack, cluster>>

\* one iteration of "for i, centroidA, bldgA in indexed_buildings", up to
\* the call of _build_cluster; after the last one the clusters are returned
ForEachBuilding ==
    /\ pc = "for_i"
    /\ IF i > Len(buildings)
       THEN /\ result' = clusters
            /\ pc' = "done"
            /\ UNCHANGED <<visited, i, stack, cluster>>
       ELSE IF i \in visited
       THEN /\ i' = i + 1
            /\ UNCHANGED <<visited, stack, cluster, pc, result>>
       ELSE /\ stack' = <<i>>
            /\ cluster' = <<>>
            /\ visited' = visited \cup {i}
            /\ pc' = "build_cluster"
            /\ UNCHANGED <<i, result>>
    /\ UNCHANGED <<strategies, legacyLocals, areaLocals, configLocals, style, features, buildings, barrier_union, clusters, members>>

\* variant: current_idx is read from the top of the stack and left there
BuildCluster_without_pop ==
    /\ pc = "build_cluster"
    /\ stack # <<>>
    /\ LET current_idx == stack[Len(stack)]
           scan == ScanNeighbours(_index_buildings(buildings), current_idx, 1,
                                  visited, stack, barrier_union,
                                  style.merge_distance)
       IN  /\ cluster' = Append(cluster, current_idx)
           /\ visited' = scan.visited
           /\ stack' = scan.stack
    /\ UNCHANGED <<strategies, legacyLocals, areaLocals, configLocals, style,
                   features, pc, buildings, barrier_union, i, clusters,
                   members, result>>

\* one iteration of "while stack" in _build_cluster
BuildCluster ==
    /\ pc = "build_cluster"
    /\ stack # <<>>
    /\ LET current_idx == stack[Len(stack)]
           scan == ScanNeighbours(_index_buildings(buildings), current_idx, 1,
                                  visited, SubSeq(stack, 1, Len(stack) - 1),
                                  barrier_union, style.merge_distance)
       IN  /\ cluster' = Append(cluster, current_idx)
           /\ visited' = scan.visited
           /\ stack' = scan.stack
    /\ UNCHANGED <<strategies, legacyLocals, areaLocals, configLocals, style, features, pc, buildings, barrier_union, i, clusters,
                   members, result>>

\* variant: all_coords starts as the first member's own coords list, so
\* that all_coords.extend grows the input record
MergeCluster_extending_first_member ==
    /\ pc = "build_cluster"
    /\ stack = <<>>
    /\ LET cl == [k \in 1..Len(cluster) |-> buildings[cluster[k]]]
       IN  IF MergeClusterRaises(cl)
           THEN /\ pc' = "raised"
                /\ UNCHANGED <<clusters, members, i, buildings>>
           ELSE /\ clusters' = Append(clusters, _merge_cluster(cl))
                /\ members' = Append(members, cluster)
                /\ buildings' =
                       [buildings EXCEPT ![cluster[1]]["coords"] =
                            Concat([k \in 1..Len(cl) |-> cl[k]["coords"]])]
                /\ i' = i + 1
                /\ pc' = "for_i"
    /\ UNCHANGED <<strategies, legacyLocals, areaLocals, configLocals, style,
                   features, barrier_union, visited, stack, cluster, result>>

\* _build_cluster returns; _merge_cluster; clusters.append(merged)
MergeCluster ==
    /\ pc = "build_cluster"
    /\ stack = <<>>
    /\ LET cl == [k \in 1..Len(cluster) |-> buildings[cluster[k]]]
       IN  IF MergeClusterRaises(cl)
           THEN /\ pc' = "raised"
                /\ UNCHANGED <<clusters, members, i>>
           ELSE /\ clusters' = Append(clusters, _merge_cluster(cl))
                /\ members' = Append(members, cluster)
                /\ i' = i + 1
                /\ pc' = "for_i"
    /\ UNCHANGED <<strategies, legacyLocals, areaLocals, configLocals, style, features, buildings, barrier_union, visited, stack,
                   cluster, result>>

\* StyleManager.merge_nearby_buildings -> combine_buildings_by_block ->
\* _area_based_merge up to the loop over the small footprints
AreaBasedMerge ==
    /\ pc = "merge_nearby_buildings"
    /\ merge_nearby_buildings(style) = "_area_based_merge"
    /\ strategies' = Append(strategies, "_area_based_merge")
    /\ LET gathered == _gather_all_footprints(features)
       IN  /\ footprints' = gathered
           /\ large' = SelectSeq(gathered, IsLarge)
           /\ small' = SelectSeq(gathered, LAMBDA fp : ~IsLarge(fp))
    /\ barrier_union' = _create_barrier_union(features)
    /\ clusters' = <<>>
    /\ visited' = {}
    /\ i' = 1
    /\ pc' = "for_small"
    /\ UNCHANGED <<legacyLocals, configLocals, style, features, buildings, stack, cluster, members, result,
                   cluster_union, total_area, weighted_height, growing>>

\* one iteration of "for i, fp in enumerate(small)" up to the grow loop;
\* after the last one the large footprints are emitted and the list returned
ForEachSmall ==
    /\ pc = "for_small"
    /\ IF i > Len(small)
       THEN /\ result' = OrderedOutput(
                              [k \in 1..Len(large) |-> LargeRecord(large[k])],
                              clusters)
            /\ members' = OrderedOutput(
                               [k \in 1..Len(large) |-> <<large[k]["source"]>>],
                               members)
            /\ pc' = "done"
            /\ UNCHANGED <<visited, i, cluster, cluster_union, total_area,
                           weighted_height, growing>>
       ELSE IF i \in visited
       THEN /\ i' = i + 1
            /\ UNCHANGED <<visited, cluster, cluster_union, total_area,
                           weighted_height, growing, pc, result, members>>
       ELSE /\ cluster' = <<i>>
            /\ visited' = MarkSeed(visited, i)
            /\ cluster_union' = small[i]["polygon"]
            /\ total_area' = small[i]["area"]
            /\ weighted_height' = QMul(Get(small[i], "height", <<10, 1>>),
                                       <<small[i]["area"], 1>>)
            /\ growing' = TRUE
            /\ pc' = "grow"
            /\ UNCHANGED <<i, result, members>>
    /\ UNCHANGED <<strategies, legacyLocals, configLocals, style, features, buildings, barrier_union, stack, clusters,
                   footprints, small, large>>

\* one pass of "while growing and cluster_union.area < AREA_THRESHOLD"
GrowCluster ==
    /\ pc = "grow"
    /\ growing /\ area(cluster_union) < AREA_THRESHOLD
    /\ LET st == ScanCandidates(small, 1,
                     [cluster |-> cluster, visited |-> visited,
                      cluster_union |-> cluster_union,
                      total_area |-> total_area,
                      weighted_height |-> weighted_height,
                      growing |-> FALSE],
                     barrier_union, Get(style, "merge_distance", 2))
       IN  /\ cluster' = st.cluster
           /\ visited' = st.visited
           /\ cluster_union' = st.cluster_union
           /\ total_area' = st.total_area
           /\ weighted_height' = st.weighted_height
           /\ growing' = st.growing
    /\ UNCHANGED <<strategies, legacyLocals, configLocals, style, features, pc, buildings, barrier_union, i, stack,
                   clusters, members, result, footprints, small, large>>

\* the grow loop has ended: force merge, coordinates, height, roof style,
\* merged_clusters.append
FinishCluster ==
    /\ pc = "grow"
    /\ ~(growing /\ area(cluster_union) < AREA_THRESHOLD)
    /\ \E roof_style \in RandomRoofs :
           clusters' = Append(clusters,
               ClusterRecord(cluster,
                             ForceMerge(cluster_union,
                                        Get(style, "merge_distance", 2)),
                             total_area, weighted_height, roof_style))
    /\ members' = Append(members, [k \in 1..Len(cluster) |-> small[cluster[k]]["source"]])
    /\ i' = i + 1
    /\ pc' = "for_small"
    /\ UNCHANGED <<strategies, legacyLocals, configLocals, style, features, buildings, barrier_union, visited, stack,
                   cluster, result, footprints, small, large, cluster_union,
                   total_area, weighted_height, growing>>

NextArea == ProcessFeatures \/ AreaBasedMerge \/ ForEachSmall \/ GrowCluster
            \/ FinishCluster

InitArea == InitWith({"block-combine"})

SpecArea == InitArea /\ [][NextArea]_vars

NextDistance == ProcessFeatures \/ MergeByDistance \/ ForEachBuilding
                \/ BuildCluster \/ MergeCluster

InitDistance == InitWith(DistanceStyles)

SpecDistance == InitDistance /\ [][NextDistance]_vars

\* BlockCombiner.combine_buildings_by_block called with a style other than
\* block-combine: _legacy_combine.  The geometry of the blocks is not part
\* of this model; a run processes pending_shapes block shapes.
\* One shape of _process_block_buildings: _select_roof_style draws a style of
\* the block type, randomizes the chosen dict in place and the emitted
\* record keeps a reference to that dict (roof_params is <<type, index>>).
LegacyCombine ==
    /\ pc = "combine_buildings_by_block"
    /\ combine_buildings_by_block(style) = "_legacy_combine"
    /\ strategies' = Append(strategies, "_legacy_combine")
    /\ footprints' = _gather_all_footprints(features)
    /\ barrier_union' = _create_barrier_union(features)
    /\ pending_shapes' \in ProcessedShapeCounts(_create_barrier_union(features),
                                                _gather_all_footprints(features))
    /\ block_info' = _analyze_block(_gather_all_footprints(features))
    /\ pc' = "legacy_combine"
    /\ UNCHANGED <<configLocals, style, features, buildings, visited, i, stack,
                   cluster, clusters, members, result, small, large,
                   cluster_union, total_area, weighted_height, growing,
                   BLOCK_TYPES, processed>>

LegacyProcessShape ==
    /\ pc = "legacy_combine"
    /\ pending_shapes > 0
    /\ LET key == BlockTypeKey(BLOCK_TYPES, AnalyzedBlockType)
           styles == BLOCK_TYPES[key]["roof_styles"]
       IN  \E k \in 1..Len(styles) :
             \E draw \in RoofDraws(styles[k]["name"]) :
               /\ BLOCK_TYPES' =
                      [BLOCK_TYPES EXCEPT ![key]["roof_styles"][k] =
                                              RandomizedChoice(@, draw)]
               /\ processed' = Append(processed,
                      [block_type |-> AnalyzedBlockType,
                       roof_style |-> styles[k]["name"],
                       roof_params |-> <<key, k>>])
    /\ pending_shapes' = pending_shapes - 1
    /\ UNCHANGED <<block_info, strategies, configLocals, style, features, pc, buildings, barrier_union, visited, i,
                   stack, cluster, clusters, members, result, areaLocals>>

\* _legacy_combine returns combined_buildings
LegacyReturn ==
    /\ pc = "legacy_combine"
    /\ pending_shapes = 0
    /\ pc' = "done"
    /\ UNCHANGED <<strategies, configLocals, style, features, buildings, barrier_union, visited, i,
                   stack, cluster, clusters, members, result, areaLocals,
                   legacyLocals>>

NextLegacy == LegacyCombine \/ LegacyProcessShape \/ LegacyReturn

\* combine_buildings_by_block called directly under a style other than
\* block-combine
InitLegacy ==
    /\ style \in {st \in StyleSettings(DistanceStyles) : st.merge_distance = 10}
    /\ style_settings = style
    /\ manager = ValidatingManager
    /\ features \in {f \in FeatureMappings :
                        Len(f.buildings) + Len(f.industrial) <= 1}
    /\ pc = "combine_buildings_by_block"
    /\ pending_shapes = 0
    /\ InitLocals

SpecLegacy == InitLegacy /\ [][NextLegacy]_vars

\* the value a legacy record's roof_params refers to
LegacyRoofParams(rec) ==
    BLOCK_TYPES[rec["roof_params"][1]]["roof_styles"][rec["roof_params"][2]]

Next == NextDistance \/ NextArea

Init == InitWith(DistanceStyles \cup {"block-combine"})

Spec == Init /\ [][Next]_vars

\* the run as the interpreter executes it: a statement that can be executed
\* is executed
InitTerminating ==
    /\ InitWith({"modern", "block-combine"})
    /\ style.merge_distance = 10
    /\ features.railways = <<>>
    /\ features.water = <<>>

\* a run that has neither returned nor raised can take a step
Returned == pc \in {"done", "raised"}

\* weak fairness of Next, WF_vars(Next), with ENABLED <<Next>>_vars written
\* out as ~Returned
FairNext == []<>Returned \/ []<><<Next>>_vars

SpecTerminating == InitTerminating /\ [][Next]_vars /\ FairNext

\* BuildingMerger._merge_cluster applied to one cluster of building records
\* of any shape: rectangles [x0, x1] x [y0, y1]
Box(x0, y0, x1, y1) == << <<x0, y0>>, <<x1, y0>>, <<x1, y1>>, <<x0, y1>> >>

ClusterCatalogue ==
    { Building(Box(0, 0, 10, 10), 10),
      Building(Box(10, 0, 20, 10), 30),
      Building(Box(4, 4, 6, 6), 20),       \* inside the first
      Building(Box(0, 5, 2, 6), 10),       \* area 2
      Building(Box(2, 0, 4, 9), 30),       \* area 18, touches the previous
      Building(Box(12, 4, 14, 6), 20) }

RECURSIVE ClustersOfLength(_)
ClustersOfLength(n) ==
    IF n = 0 THEN {<<>>}
    ELSE {Append(l, b) : l \in ClustersOfLength(n - 1), b \in ClusterCatalogue}

ClusterLists ==
    {l \in UNION {ClustersOfLength(n) : n \in 1..MaxBuildings} :
        Cardinality(Range(l)) = Len(l)}

ApplyMergeCluster ==
    /\ pc = "_merge_cluster"
    /\ IF MergeClusterRaises(buildings)
       THEN /\ pc' = "raised"
            /\ UNCHANGED <<result, members>>
       ELSE /\ result' = <<_merge_cluster(buildings)>>
            /\ members' = <<[k \in 1..Len(buildings) |-> k]>>
            /\ pc' = "done"
    /\ UNCHANGED <<configLocals, strategies, style, features, buildings,
                   barrier_union, visited, i, stack, cluster, clusters,
                   areaLocals, legacyLocals>>

InitMergeCluster ==
    /\ style \in {st \in StyleSettings(DistanceStyles) : st.merge_distance = 10}
    /\ style_settings = style
    /\ manager = ValidatingManager
    /\ buildings \in ClusterLists
    /\ features = [buildings |-> buildings, industrial |-> <<>>,
                   roads |-> <<>>, railways |-> <<>>, water |-> <<>>]
    /\ pc = "_merge_cluster"
    /\ pending_shapes = 0
    /\ barrier_union = NoBarrier
    /\ visited = {}
    /\ i = 1
    /\ stack = <<>>
    /\ cluster = <<>>
    /\ clusters = <<>>
    /\ members = <<>>
    /\ result = <<>>
    /\ footprints = <<>>
    /\ small = <<>>
    /\ large = <<>>
    /\ cluster_union = EmptyGeometry
    /\ total_area = 0
    /\ weighted_height = <<0, 1>>
    /\ growing = FALSE
    /\ BLOCK_TYPES = InitialBlockTypes
    /\ processed = <<>>
    /\ block_info = _analyze_block(<<>>)
    /\ strategies = <<>>

SpecMergeCluster == InitMergeCluster /\ [][ApplyMergeCluster]_vars

\* StyleManager.__init__ of either class
Construct ==
    /\ pc = "construct"
    /\ IF manager = ValidatingManager
       THEN IF ValidateRaises(style_settings)
            THEN /\ pc' = "rejected"
                 /\ UNCHANGED style
            ELSE /\ style' = _validate_and_update_style(DEFAULT_STYLE,
                                                        style_settings)
                 /\ pc' = "process_features"
       ELSE /\ style' = StyleUpdate(LegacyDefaultStyle, style_settings)
            /\ pc' = "process_features"
    /\ UNCHANGED <<configLocals, strategies, features, buildings, barrier_union,
                   visited, i, stack, cluster, clusters, members, result,
                   areaLocals, legacyLocals>>

\* style settings as they come from the command line: any name may be given
\* for artistic_style
RequestedStyles == ARTISTIC_STYLES \cup {"brutalist"}

NextConstruct == Construct \/ Next

InitConstruct ==
    /\ manager \in {ValidatingManager, ConverterManager}
    /\ style_settings \in {st \in StyleSettings(RequestedStyles) :
                               st.merge_distance \in {0, 10}}
    /\ style = IF manager = ValidatingManager
               THEN DEFAULT_STYLE ELSE LegacyDefaultStyle
    /\ features \in {f \in FeatureMappings :
                        Len(f.buildings) + Len(f.industrial) <= 2}
    /\ pc = "construct"
    /\ pending_shapes = 0
    /\ InitLocals

SpecConstruct == InitConstruct /\ [][NextConstruct]_vars

\* BlockCombiner._gather_all_footprints applied to a feature mapping whose
\* rings may be short or self-intersecting
BowTie == << <<0, 0>>, <<10, 10>>, <<10, 0>>, <<0, 5>> >>

GatherCatalogue ==
    { Building(Rect(0, 10), 10),
      Building(Rect(20, 20), 30),
      Building(<< <<12, 0>>, <<14, 0>> >>, 10),    \* a ring of 2 points
      Building(BowTie, 20) }                       \* two edges cross

RECURSIVE GatherListsOfLength(_)
GatherListsOfLength(n) ==
    IF n = 0 THEN {<<>>}
    ELSE {Append(l, b) : l \in GatherListsOfLength(n - 1), b \in GatherCatalogue}

GatherMappings ==
    UNION {
      {[buildings |-> SubSeq(l, 1, Len(l) - n),
        industrial |-> [k \in 1..n |-> Industrial(l[Len(l) - n + k])],
        roads |-> <<>>, railways |-> <<>>, water |-> <<>>] :
          n \in 0..Min(1, Len(l))} :
      l \in UNION {GatherListsOfLength(m) : m \in 0..MaxBuildings}}

ApplyGather ==
    /\ pc = "_gather_all_footprints"
    /\ footprints' = _gather_all_footprints(features)
    /\ pc' = "gathered"
    /\ UNCHANGED <<configLocals, strategies, style, features, buildings,
                   barrier_union, visited, i, stack, cluster, clusters,
                   members, result, small, large, cluster_union, total_area,
                   weighted_height, growing, legacyLocals>>

InitGather ==
    /\ style \in {st \in StyleSettings({"block-combine"}) :
                      st.merge_distance = 10}
    /\ style_settings = style
    /\ manager = ValidatingManager
    /\ features \in GatherMappings
    /\ pc = "_gather_all_footprints"
    /\ pending_shapes = 0
    /\ InitLocals

SpecGather == InitGather /\ [][ApplyGather]_vars

\* BlockCombiner._calculate_building_height applied to one block analysis
\* of any type and average height; the record keeps the drawn variation
AverageHeights == {<<h, 2>> : h \in 8..90}

ApplyCalculateHeight ==
    /\ pc = "_calculate_building_height"
    /\ \E variation \in Variations :
           processed' = <<[block_type |-> block_info["type"],
                           height |-> _calculate_building_height(
                               block_info["avg_height"],
                               BLOCK_TYPES[BlockTypeKey(BLOCK_TYPES,
                                                        block_info["type"])],
                               variation),
                           variation |-> variation]>>
    /\ pc' = "done"
    /\ UNCHANGED <<configLocals, strategies, style, features, buildings,
                   barrier_union, visited, i, stack, cluster, clusters,
                   members, result, areaLocals, BLOCK_TYPES, pending_shapes,
                   block_info>>

InitHeight ==
    /\ style \in {st \in StyleSettings(DistanceStyles) : st.merge_distance = 10}
    /\ style_settings = style
    /\ manager = ValidatingManager
    /\ features = [buildings |-> <<>>, industrial |-> <<>>,
                   roads |-> <<>>, railways |-> <<>>, water |-> <<>>]
    /\ pc = "_calculate_building_height"
    /\ pending_shapes = 1
    /\ buildings = <<>>
    /\ barrier_union = NoBarrier
    /\ visited = {}
    /\ i = 1
    /\ stack = <<>>
    /\ cluster = <<>>
    /\ clusters = <<>>
    /\ members = <<>>
    /\ result = <<>>
    /\ footprints = <<>>
    /\ small = <<>>
    /\ large = <<>>
    /\ cluster_union = EmptyGeometry
    /\ total_area = 0
    /\ weighted_height = <<0, 1>>
    /\ growing = FALSE
    /\ BLOCK_TYPES = InitialBlockTypes
    /\ processed = <<>>
    /\ block_info \in {[type |-> t, avg_height |-> Div(a[1], a[2])] :
                           t \in Range(TypeOrder), a \in AverageHeights}
    /\ strategies = <<>>

SpecHeight == InitHeight /\ [][ApplyCalculateHeight]_vars

\* StyleManager.merge_nearby_buildings called on its own: features is what
\* set_current_features stored last (the empty dict of __init__ when it was
\* never called), buildings and barrier_union are the arguments
NeverSet == <<>>

DirectFeatures ==
    {NeverSet}
    \cup {f \in FeatureMappings :
              /\ Len(f.buildings) + Len(f.industrial) <= 2
              /\ f.railways = <<>> /\ f.water = <<>>
              /\ ~BarrierUnionRaises(f.roads, f.railways, f.water)}

DirectBuildings == {l \in BuildingLists : Len(l) <= 1}

DirectBarriers ==
    {NoBarrier, create_barrier_union(<<LineFeature(10)>>, <<>>, <<>>, 10, 10)}

NextDirect ==
    \/ MergeByDistance \/ ForEachBuilding \/ BuildCluster \/ MergeCluster
    \/ AreaBasedMerge \/ ForEachSmall \/ GrowCluster \/ FinishCluster

InitDirect ==
    /\ style \in {st \in StyleSettings({"modern", "block-combine"}) :
                      st.merge_distance = 10}
    /\ style_settings = style
    /\ manager = ValidatingManager
    /\ features \in DirectFeatures
    /\ buildings \in DirectBuildings
    /\ barrier_union \in DirectBarriers
    /\ pc = "merge_nearby_buildings"
    /\ pending_shapes = 0
    /\ InitWorking

SpecDirect == InitDirect /\ [][NextDirect]_vars

TypeOK == pc \in {"construct", "rejected", "process_features",
                  "merge_nearby_buildings", "for_i", "build_cluster",
                  "for_small", "grow", "combine_buildings_by_block",
                  "legacy_combine", "_merge_cluster",
                  "_gather_all_footprints", "gathered",
                  "_calculate_building_height", "done", "raised"}

---------------------------------------------------------------------------
(* Reading the output *)

\* the code generator's reading of a record: building.get("is_cluster", False)
is_cluster(building) == Get(building, "is_cluster", FALSE)

\* the footprints handed to the engine, in input order
InputFootprints == features.buildings \o features.industrial

DistanceMode == style.artistic_style # "block-combine"

\* the connectivity graph of section 4.3 on the input indices: centroids
\* strictly closer than merge_distance, and a connecting segment that does
\* not meet the barrier
SegmentCrossesBarrier(a, b) ==
    /\ ~barrier_union.is_none
    /\ Intersects(calculate_centroid(InputFootprints[a]["coords"]),
                  calculate_centroid(InputFootprints[b]["coords"]),
                  barrier_union)

CentroidsWithin(a, b) ==
    LET q == calculate_distance_sq(calculate_centroid(InputFootprints[a]["coords"]),
                                   calculate_centroid(InputFootprints[b]["coords"]))
    IN  q[1] < style.merge_distance * style.merge_distance * q[2]

Linked(a, b) == CentroidsWithin(a, b) /\ ~SegmentCrossesBarrier(a, b)

RECURSIVE LinkClosure(_)
LinkClosure(S) ==
    LET T == S \cup {b \in 1..Len(InputFootprints) : \E a \in S : Linked(a, b)}
    IN  IF T = S THEN S ELSE LinkClosure(T)

Component(a) == LinkClosure({a})

\* every entry of s after the first is linked to an earlier entry, so that
\* a chain of links joins any two entries
ChainedInOrder(s) ==
    \A n \in 2..Len(s) : \E m \in 1..(n - 1) : Linked(s[m], s[n])

\* the merger is past process_features, running the distance strategy with
\* merge_distance > 0
DistanceRun ==
    /\ DistanceMode
    /\ style.merge_distance > 0
    /\ pc \in {"for_i", "build_cluster", "done", "raised"}

---------------------------------------------------------------------------
(* Claims *)

\* C1: in distance mode with merge_distance > 0, two footprints are in the
\* same cluster (emitted or under construction) only if a chain of links
\* joins them, every link being a pair of centroids closer than
\* merge_distance whose segment does not meet the barrier union.  The chain
\* is read off the order of entry: every member after the first is linked
\* to a member that entered the cluster before it.
C1_ClusteredOnlyIfLinked ==
    DistanceRun =>
        /\ \A k \in 1..Len(members) : ChainedInOrder(members[k])
        /\ ChainedInOrder(cluster \o stack)

\* C1 witness: three footprints in a row, the barrier between the 2nd and
\* the 3rd, which are within merge_distance of each other: {1,2} and {3}
C1_Witness ==
    /\ DistanceRun
    /\ pc = "done"
    /\ Len(InputFootprints) = 3
    /\ CentroidsWithin(2, 3)
    /\ SegmentCrossesBarrier(2, 3)
    /\ members = << <<1, 2>>, <<3>> >>
    /\ is_cluster(result[1])
    /\ ~is_cluster(result[2])

\* C2: in distance mode with merge_distance > 0 the returned clusters are
\* exactly the connected components of the link graph (links are strict:
\* distance < merge_distance): every input footprint is in exactly one
\* cluster, one record is returned per component, and a record merged from
\* several footprints has is_cluster true and size equal to their number.
C2_ClustersAreComponents ==
    (DistanceRun /\ pc = "done") =>
        /\ Len(result) = Len(members)
        /\ \A a \in 1..Len(InputFootprints) :
               Cardinality({k \in 1..Len(members) : a \in Range(members[k])}) = 1
        /\ \A k \in 1..Len(members) :
               /\ Cardinality(Range(members[k])) = Len(members[k])
               /\ Range(members[k]) = Component(members[k][1])
               /\ Len(members[k]) > 1 =>
                      /\ is_cluster(result[k])
                      /\ result[k]["size"] = Len(members[k])
        /\ Len(result) = Cardinality({Component(a) :
                                          a \in 1..Len(InputFootprints)})

\* C2 witness: three footprints 10 apart, merge_distance 15, no barrier: the
\* third is not linked to the seed but joins through the second
C2_Witness ==
    /\ DistanceRun
    /\ pc = "done"
    /\ barrier_union.is_none
    /\ style.merge_distance = 15
    /\ Len(InputFootprints) = 3
    /\ ~Linked(1, 3)
    /\ Len(result) = 1
    /\ is_cluster(result[1])
    /\ result[1]["size"] = 3

\* C3: in distance mode with merge_distance <= 0 the result has one record
\* per input footprint, in input order, with the footprint's coordinates
\* and height, and none of them reads as a cluster.
C3_SingletonPassthrough ==
    (DistanceMode /\ style.merge_distance <= 0 /\ pc = "done") =>
        /\ Len(result) = Len(InputFootprints)
        /\ \A k \in 1..Len(result) :
               /\ ~is_cluster(result[k])
               /\ result[k]["coords"] = InputFootprints[k]["coords"]
               /\ result[k]["height"] = InputFootprints[k]["height"]

\* C3 witness: a passthrough of several footprints, one of them a ring of
\* fewer than 3 points
C3_Witness ==
    /\ DistanceMode
    /\ style.merge_distance <= 0
    /\ pc = "done"
    /\ Len(result) = 3
    /\ \E k \in 1..Len(result) : Len(result[k]["coords"]) < 3

---------------------------------------------------------------------------
(* Claims on heights and on the area-threshold merger *)

AreaMode == style.artistic_style = "block-combine"

\* own area and height of the input footprint at position idx
OwnArea(idx) == calculate_polygon_area(InputFootprints[idx]["coords"])

OwnHeight(idx) == InputFootprints[idx]["height"]

OwnLarge(idx) == QLeq(<<AREA_THRESHOLD, 1>>, OwnArea(idx))

\* sum(area_i * height_i) / sum(area_i) over the footprints ms
WeightedMeanHeight(ms) ==
    QDiv(QSum([k \in 1..Len(ms) |-> QMul(OwnHeight(ms[k]), OwnArea(ms[k]))]),
         QSum([k \in 1..Len(ms) |-> OwnArea(ms[k])]))

\* C4: in both modes the height of every record merged from two or more
\* footprints is sum(area_i * height_i) / sum(area_i), area_i being each
\* member's own footprint area (the members of a merged record always have
\* positive area).
C4_HeightWeighting ==
    pc = "done" =>
        \A k \in 1..Len(result) :
            Len(members[k]) >= 2 =>
                result[k]["height"] = WeightedMeanHeight(members[k])

\* C4 witness: area-threshold mode merged two overlapping footprints of
\* different area and height, so that the union's area is smaller than the
\* sum of the members' areas
C4_Witness ==
    /\ AreaMode
    /\ pc = "done"
    /\ \E k \in 1..Len(result) :
           /\ Len(members[k]) = 2
           /\ OwnArea(members[k][1]) # OwnArea(members[k][2])
           /\ OwnHeight(members[k][1]) # OwnHeight(members[k][2])
           /\ Polygon(InputFootprints[members[k][1]]["coords"]).xs
              \cap Polygon(InputFootprints[members[k][2]]["coords"]).xs # {}

\* the area-threshold merger is past gathering
AreaRun == AreaMode /\ pc \in {"for_small", "grow", "done"}

\* C5: in area-threshold mode a gathered footprint whose area is >= the
\* threshold is never in a cluster with another footprint, neither as seed
\* nor absorbed, and is returned as its own record: is_cluster false, its
\* own coordinates, its own height, nothing else.
C5_LargePreserved ==
    AreaRun =>
        /\ pc = "grow" =>
               \A k \in 1..Len(cluster) : ~OwnLarge(small[cluster[k]]["source"])
        /\ \A k \in 1..Len(members) :
               (\E m \in Range(members[k]) : OwnLarge(m)) => Len(members[k]) = 1
        /\ pc = "done" =>
               \A f \in 1..Len(footprints) :
                   OwnLarge(footprints[f]["source"]) =>
                       \E k \in 1..Len(result) :
                           /\ members[k] = <<footprints[f]["source"]>>
                           /\ result[k] =
                                  [coords |-> InputFootprints[footprints[f]["source"]]["coords"],
                                   height |-> OwnHeight(footprints[f]["source"]),
                                   is_cluster |-> FALSE]

\* C5 witness: a footprint of area exactly the threshold next to a small
\* one that is within merge_distance of it; both come out alone
C5_Witness ==
    /\ AreaMode
    /\ pc = "done"
    /\ style.merge_distance > 0
    /\ Len(result) = 2
    /\ \E a, b \in 1..Len(InputFootprints) :
           /\ OwnArea(a) = <<AREA_THRESHOLD, 1>>
           /\ Len(InputFootprints[b]["coords"]) >= 3
           /\ ~OwnLarge(b)
           /\ DistanceWithin(Polygon(InputFootprints[a]["coords"]),
                             Polygon(InputFootprints[b]["coords"]),
                             style.merge_distance)
           /\ members = << <<a>>, <<b>> >>

\* the grow loop of the current cluster has ended
GrowthEnded ==
    AreaMode /\ pc = "grow" /\ ~(growing /\ area(cluster_union) < AREA_THRESHOLD)

\* an unvisited small footprint the cluster could still absorb
Absorbable(j) ==
    /\ j \notin visited
    /\ DistanceWithin(small[j]["polygon"], cluster_union, style.merge_distance)
    /\ ~(/\ ~barrier_union.is_none
         /\ Intersects(centroid(cluster_union), centroid(small[j]["polygon"]),
                       barrier_union))

\* C6: when the growth of a small cluster ends with the accumulated union
\* still below the threshold, no unvisited small footprint is within
\* merge_distance of that union and unblocked.
C6_ThresholdRespect ==
    (GrowthEnded /\ area(cluster_union) < AREA_THRESHOLD) =>
        \A j \in 1..Len(small) : ~Absorbable(j)

\* C6 witness: growth ended below the threshold after an absorption, and a
\* small footprint is left over
C6_Witness ==
    /\ GrowthEnded
    /\ area(cluster_union) < AREA_THRESHOLD
    /\ Len(cluster) >= 2
    /\ \E j \in 1..Len(small) : j \notin visited

RoofNames == {"pitched", "tiered", "flat", "sawtooth", "modern", "stepped"}

\* C8: in area-threshold mode a returned record is a cluster exactly when
\* two or more footprints were absorbed into it, it carries roof_style and
\* roof_params exactly when it is a cluster, and then roof_style is one of
\* the six names and equals roof_params['name'].
C8_RoofOnlyOnClusters ==
    (AreaMode /\ pc = "done") =>
        \A k \in 1..Len(result) :
            /\ result[k]["is_cluster"] <=> Len(members[k]) >= 2
            /\ "roof_style" \in DOMAIN result[k] <=> result[k]["is_cluster"]
            /\ "roof_params" \in DOMAIN result[k] <=> result[k]["is_cluster"]
            /\ result[k]["is_cluster"] =>
                   /\ result[k]["roof_style"] \in RoofNames
                   /\ result[k]["roof_style"] = result[k]["roof_params"]["name"]

\* C8 witness: a run returning a merged cluster with its roof next to a
\* small footprint that absorbed nothing
C8_Witness ==
    /\ AreaMode
    /\ pc = "done"
    /\ \E k \in 1..Len(result) : Len(members[k]) >= 2 /\ "roof_style" \in DOMAIN result[k]
    /\ \E k \in 1..Len(result) :
           /\ Len(members[k]) = 1
           /\ ~OwnLarge(members[k][1])

\* C9: area-threshold mode accounts for every gathered footprint exactly
\* once: one record per large footprint plus one per small seed, every
\* footprint in exactly one record, and a small footprint that absorbed
\* nothing is returned alone, not as a cluster, with its own height.
C9_EveryFootprintOnce ==
    (AreaMode /\ pc = "done") =>
        /\ Len(result) = Len(members)
        /\ \A f \in 1..Len(footprints) :
               Cardinality({<<k, m>> \in (1..Len(members)) \X (1..MaxBuildings + 1) :
                               /\ m <= Len(members[k])
                               /\ members[k][m] = footprints[f]["source"]}) = 1
        /\ \A k \in 1..Len(members) :
               Range(members[k]) \subseteq {footprints[f]["source"] : f \in 1..Len(footprints)}
        /\ Cardinality({k \in 1..Len(members) : OwnLarge(members[k][1])})
               = Cardinality({f \in 1..Len(footprints) : OwnLarge(footprints[f]["source"])})
        /\ \A k \in 1..Len(members) :
               (Len(members[k]) = 1 /\ ~OwnLarge(members[k][1])) =>
                   /\ ~is_cluster(result[k])
                   /\ result[k]["height"] = OwnHeight(members[k][1])

\* C9 witness: one footprint above the threshold and one small footprint
\* give exactly 2 records
C9_Witness ==
    /\ AreaMode
    /\ pc = "done"
    /\ Len(footprints) = 2
    /\ \E a, b \in 1..Len(InputFootprints) :
           /\ OwnLarge(a)
           /\ Len(InputFootprints[b]["coords"]) >= 3
           /\ ~OwnLarge(b)
    /\ Len(result) = 2

---------------------------------------------------------------------------
(* Claims the code does not keep *)

\* bounds of section 4.5 around the nominal defaults: pitched height_factor
\* within 20% of 0.3, tiered levels within 1 of 2 and >= 1, sawtooth angle
\* within 5 of 30 and >= 10
InRoofBounds(params) ==
    /\ params["name"] = "pitched" =>
           /\ QLeq(<<24, 100>>, params["height_factor"])
           /\ QLeq(params["height_factor"], <<36, 100>>)
    /\ params["name"] = "tiered" =>
           params["levels"] \in 1..3
    /\ params["name"] = "sawtooth" =>
           params["angle"] \in 25..35

\* C7: every emitted roof_params value is within the range around the
\* style's nominal default, for the first and for every later cluster or
\* block (area-threshold clusters and legacy block records).
C7_RoofParamsInBounds ==
    /\ \A k \in 1..Len(processed) : InRoofBounds(LegacyRoofParams(processed[k]))
    /\ \A k \in 1..Len(clusters) :
           "roof_params" \in DOMAIN clusters[k] =>
               InRoofBounds(clusters[k]["roof_params"])

\* C10: every record handed to the code generator has a ring of at least 3
\* points, in every strategy.
C10_NoDegenerateRing ==
    pc = "done" => \A k \in 1..Len(result) : Len(result[k]["coords"]) >= 3

---------------------------------------------------------------------------
(* Claims on malformed input, configuration and the choice of strategy *)

\* C11: a single malformed feature never aborts the run: neither building
\* the barrier union nor merging raises.
C11_MalformedFeatureNeverRaises == pc # "raised"

\* a merger has been entered
MergeEntered == strategies # <<>>

\* C12: in every state in which a merge runs, artistic_style is one of the
\* allowed values, whichever StyleManager class was constructed.
C12_StyleValidated ==
    MergeEntered => style["artistic_style"] \in ARTISTIC_STYLES

NoBarrierFeatures ==
    features.roads = <<>> /\ features.railways = <<>> /\ features.water = <<>>

\* C13: with no barrier features the barrier is the None sentinel and no
\* strategy treats it as blocking or as a reason to drop buildings: in
\* distance mode in-range pairs are linked, in area-threshold mode growth
\* never leaves an in-range candidate out below the threshold, and the
\* legacy block strategy still turns footprints into records.
C13_NoBarrierNeverBlocks ==
    (NoBarrierFeatures /\ MergeEntered) =>
        /\ barrier_union.is_none
        /\ DistanceRun =>
               \A a, b \in 1..Len(InputFootprints) :
                   Linked(a, b) <=> CentroidsWithin(a, b)
        /\ (GrowthEnded /\ area(cluster_union) < AREA_THRESHOLD) =>
               \A j \in 1..Len(small) :
                   j \notin visited =>
                       ~DistanceWithin(small[j]["polygon"], cluster_union,
                                       style.merge_distance)
        /\ (strategies = <<"_legacy_combine">> /\ pc = "done"
                /\ footprints # <<>>) =>
               processed # <<>>

\* C14: with no footprints at all each merger returns an empty list and
\* raises nothing, with or without barrier features.
C14_EmptyInputEmptyOutput ==
    (InputFootprints = <<>> /\ MergeEntered) =>
        /\ pc # "raised"
        /\ pc = "done" => result = <<>>

\* C14 witness: the distance merger with merge_distance > 0 has returned
\* on an empty list while a barrier is present
C14_Witness ==
    /\ InputFootprints = <<>>
    /\ strategies = <<"_merge_by_distance">>
    /\ style.merge_distance > 0
    /\ ~barrier_union.is_none
    /\ pc = "done"
    /\ result = <<>>

\* C15: once a record with roof_params has been appended to the output, no
\* later step changes the record, its roof_style or any value in its
\* roof_params (area-threshold clusters and legacy block records).
C15_RecordsNeverMutated ==
    [][/\ \A k \in 1..Len(processed) :
              /\ processed'[k] = processed[k]
              /\ LegacyRoofParams(processed[k])' = LegacyRoofParams(processed[k])
       /\ \A k \in 1..Len(clusters) :
              /\ Len(clusters') >= k
              /\ clusters'[k] = clusters[k]]_vars

\* C16: a run enters exactly one merger strategy, chosen from
\* artistic_style: block-combine runs only the area-threshold merge, any
\* other allowed style only the distance-based merge, and the legacy block
\* strategy is never entered through merge_nearby_buildings.
C16_ExactlyOneStrategy ==
    /\ Len(strategies) <= 1
    /\ MergeEntered =>
           strategies[1] = IF style["artistic_style"] = "block-combine"
                           THEN "_area_based_merge"
                           ELSE "_merge_by_distance"
    /\ pc \notin {"combine_buildings_by_block", "legacy_combine"}
    /\ processed = <<>>
    /\ pc \in {"for_i", "build_cluster"} => strategies = <<"_merge_by_distance">>
    /\ pc \in {"for_small", "grow"} => strategies = <<"_area_based_merge">>
    /\ pc = "done" => Len(strategies) = 1

\* C16 witness: a block-combine run has returned records after entering the
\* area-threshold merge only
C16_Witness ==
    /\ style["artistic_style"] = "block-combine"
    /\ strategies = <<"_area_based_merge">>
    /\ pc = "done"
    /\ Len(result) >= 2

---------------------------------------------------------------------------
(* Claims on cluster geometry, growth and ordering *)

\* C17: the area of every output cluster's polygon is >= the area of each
\* of its member footprints, hence of the largest one (distance mode and
\* area-threshold mode).
C17_AreaConservation ==
    pc = "done" =>
        \A k \in 1..Len(result) :
            Len(result[k]["coords"]) >= 3 =>
                \A mbr \in Range(members[k]) :
                    Len(InputFootprints[mbr]["coords"]) >= 3 =>
                        QLeq(OwnArea(mbr),
                             calculate_polygon_area(result[k]["coords"]))

\* union of the first n footprints absorbed into the cluster under
\* construction
RECURSIVE AbsorbedUnion(_)
AbsorbedUnion(n) ==
    IF n = 1 THEN small[cluster[1]]["polygon"]
    ELSE unary_union(AbsorbedUnion(n - 1), small[cluster[n]]["polygon"])

\* C18: in area-threshold mode nothing is absorbed into a cluster once its
\* accumulated union has reached the threshold: before each absorption,
\* the union of the footprints absorbed so far was below the threshold.
C18_GrowthStopsAtThreshold ==
    (AreaMode /\ pc = "grow") =>
        \A n \in 1..(Len(cluster) - 1) :
            area(AbsorbedUnion(n)) < AREA_THRESHOLD

\* number of large footprints among the gathered ones
LargeCount ==
    Cardinality({f \in 1..Len(footprints) : OwnLarge(footprints[f]["source"])})

Covered(feature) ==
    LET xs == [k \in 1..Len(feature["coords"]) |-> feature["coords"][k][1]]
    IN  /\ ~barrier_union.is_none
        /\ \E strip \in barrier_union.strips :
               strip.lo <= 10 * SeqMin(xs) /\ 10 * SeqMax(xs) <= strip.hi

\* C20: the barrier consulted by the running merger contains every road,
\* every railway and every water polygon, in area-threshold mode as in
\* distance mode.
C20_BarrierFromAllFeatures ==
    (MergeEntered /\ pc # "raised") =>
        /\ \A k \in 1..Len(features.roads) : Covered(features.roads[k])
        /\ \A k \in 1..Len(features.railways) : Covered(features.railways[k])
        /\ \A k \in 1..Len(features.water) : Covered(features.water[k])

\* the width, in tenths, a barrier gives to a road
RoadStripWidth(road, barrier) ==
    LET xs == [k \in 1..Len(road["coords"]) |-> road["coords"][k][1]]
        strips == {st \in barrier.strips :
                      st.lo <= 10 * SeqMin(xs) /\ 10 * SeqMax(xs) <= st.hi}
    IN  IF strips = {} THEN 0
        ELSE SetMax({st.hi - st.lo : st \in strips})

\* C21: the buffer the area-threshold merger puts around a road is strictly
\* thicker than the buffer process_features puts around the same road for
\* the distance merger.
C21_BlockBufferThicker ==
    AreaRun =>
        \A k \in 1..Len(features.roads) :
            RoadStripWidth(features.roads[k], barrier_union)
                > RoadStripWidth(features.roads[k],
                      create_barrier_union(<<features.roads[k]>>, <<>>, <<>>,
                          DistanceRoadBuffer, DistanceRailwayBuffer))

\* the footprints gathered from the record at position k of
\* buildings + industrial
GatheredFrom(k) == {n \in 1..Len(footprints) : footprints[n]["source"] = k}

\* C22: footprint gathering excludes every record with fewer than 3
\* vertices, and loses no record with at least 3: a record whose ring is
\* invalid is repaired, so that at least one footprint with the record's
\* height comes from it.
C22_GatherRepairsInvalid ==
    pc = "gathered" =>
        \A k \in 1..Len(InputFootprints) :
            IF Len(InputFootprints[k]["coords"]) < 3
            THEN GatheredFrom(k) = {}
            ELSE /\ GatheredFrom(k) # {}
                 /\ \A n \in GatheredFrom(k) :
                        footprints[n]["height"] = InputFootprints[k]["height"]

\* the legacy strategy runs and has emitted a record
LegacyEmitted ==
    /\ strategies = <<"_legacy_combine">>
    /\ processed # <<>>

\* C23: in the legacy strategy a block overlapped only by footprints
\* gathered from the industrial feature list is classified industrial: its
\* records carry block_type industrial and a roof style of the industrial
\* type.
C23_MajorityTypeClassifies ==
    (/\ LegacyEmitted
     /\ \A n \in 1..Len(footprints) :
            Get(footprints[n]["original"], "is_industrial", FALSE))
        => \A k \in 1..Len(processed) :
               /\ processed[k]["block_type"] = "industrial"
               /\ processed[k]["roof_style"] \in
                      {InitialBlockTypes["industrial"]["roof_styles"][m]["name"] :
                           m \in 1..3}

\* _calculate_building_height has returned for the analysed block
HeightComputed ==
    /\ pc = "done"
    /\ strategies = <<>>
    /\ Len(processed) = 1
    /\ "variation" \in DOMAIN processed[1]

\* range of the block's type
TypeSpecs == BLOCK_TYPES[BlockTypeKey(BLOCK_TYPES, block_info["type"])]

InTypeRange(h) ==
    /\ QLeq(<<TypeSpecs["min_height"], 1>>, h)
    /\ QLeq(h, <<TypeSpecs["max_height"], 1>>)

\* |h - avg| <= 15% of avg
WithinJitter(h, avg) ==
    /\ QLeq(QMul(<<17, 20>>, avg), h)
    /\ QLeq(h, QMul(<<23, 20>>, avg))

\* the average lies in the type's range and so does the jittered average,
\* so that the final min/max leaves it alone
AverageUnclamped ==
    /\ InTypeRange(block_info["avg_height"])
    /\ InTypeRange(QMul(block_info["avg_height"], processed[1]["variation"]))

\* C24 as stated: the height lies in the type's range, and is within 15% of
\* the block's average height whenever the average lies in the type's range
\* and no clamping applies.
C24_AsStated ==
    HeightComputed =>
        /\ InTypeRange(processed[1]["height"])
        /\ AverageUnclamped =>
               WithinJitter(processed[1]["height"], block_info["avg_height"])

\* C24: the height computed for a block's building lies within
\* [min_height, max_height] of the block's type, and differs from the block's
\* average height by at most 15% whenever that average lies in the type's
\* range, is at least the base floor of 15, and the final clamp does not
\* apply.
C24_HeightInRangeAndJittered ==
    HeightComputed =>
        /\ InTypeRange(processed[1]["height"])
        /\ (AverageUnclamped /\ QLeq(<<15, 1>>, block_info["avg_height"])) =>
               /\ WithinJitter(processed[1]["height"], block_info["avg_height"])
               /\ processed[1]["height"] =
                      QMul(block_info["avg_height"], processed[1]["variation"])

\* C24 witness: an industrial block of average height 20 drawn 15% up
C24_Witness ==
    /\ HeightComputed
    /\ AverageUnclamped
    /\ block_info["type"] = "industrial"
    /\ block_info["avg_height"] = <<20, 1>>
    /\ processed[1]["height"] = <<23, 1>>

\* a merger is running: merge_nearby_buildings has been called and has not
\* returned
MergerRunning ==
    pc \in {"merge_nearby_buildings", "for_i", "build_cluster", "for_small",
            "grow"}

\* C25: no step of either merger changes the buildings list it was passed
\* (length, order, records, their coords and heights) or the feature
\* mapping (roads, railways, water, buildings, industrial).
C25_InputsReadOnly ==
    [][MergerRunning => (buildings' = buildings /\ features' = features)]_vars

\* C25 witness: a run over a mapping with a road has returned a record merged
\* from several footprints, and the list passed in is still the input
C25_Witness ==
    /\ pc = "done"
    /\ features.roads # <<>>
    /\ \E k \in 1..Len(members) : Len(members[k]) > 1
    /\ Len(buildings) >= 2
    /\ buildings = InputFootprints

\* the orders in which a list of n footprints can be passed
InputOrders(n) ==
    {p \in [1..n -> 1..n] : \A a, b \in 1..n : p[a] = p[b] => a = b}

\* the clusters, as sets of positions of the list passed in, of a
\* distance-mode run over that list reordered by p
PartitionUnder(p) ==
    LET reordered == [k \in 1..Len(buildings) |-> buildings[p[k]]]
        run == ClustersFrom(_index_buildings(reordered), 1, {}, barrier_union,
                            style.merge_distance)
    IN  {{p[a] : a \in Range(run[k])} : k \in 1..Len(run)}

\* C26: in distance mode the partition of the footprints into clusters is
\* the same for every order of the input list, and so for every footprint a
\* traversal starts from.
C26_PartitionOrderIndependent ==
    (DistanceRun /\ pc = "done") =>
        \A p \in InputOrders(Len(buildings)) :
            PartitionUnder(p) = {Range(members[k]) : k \in 1..Len(members)}

\* C26 witness: three footprints, the last two clustered; passed in the
\* reverse order the cluster comes first in the output
C26_Witness ==
    /\ DistanceRun
    /\ pc = "done"
    /\ Len(buildings) = 3
    /\ members = << <<1>>, <<2, 3>> >>
    /\ LET p == [k \in 1..3 |-> 4 - k]
       IN  ClustersFrom(_index_buildings([k \in 1..3 |-> buildings[p[k]]]), 1,
                        {}, barrier_union, style.merge_distance)
               = << <<1, 2>>, <<3>> >>

\* the records of the stored feature mapping, buildings then industrial
CurrentFootprints ==
    Get(features, "buildings", <<>>) \o Get(features, "industrial", <<>>)

\* C27: in block-combine style merge_nearby_buildings computes its result
\* from the stored feature mapping alone: the barrier consulted is built
\* from it, the returned records partition the footprints gathered from it
\* and a record of one footprint has that footprint's coords and height,
\* whatever the buildings and barrier_union arguments are; with no mapping
\* stored the result is the empty list.
C27_BlockModeReadsStoredFeatures ==
    (pc = "done" /\ style.artistic_style = "block-combine") =>
        /\ features = NeverSet => result = <<>>
        /\ barrier_union = _create_barrier_union(features)
        /\ Len(result) = Len(members)
        /\ UNION {Range(members[k]) : k \in 1..Len(members)}
               = {fp["source"] : fp \in Range(_gather_all_footprints(features))}
        /\ \A k \in 1..Len(members) :
               Len(members[k]) = 1 =>
                   /\ result[k]["coords"]
                          = CurrentFootprints[members[k][1]]["coords"]
                   /\ result[k]["height"]
                          = CurrentFootprints[members[k][1]]["height"]

\* C27 witness: no mapping was stored, a building and a barrier are passed,
\* and the area-threshold merger has returned
C27_Witness ==
    /\ pc = "done"
    /\ strategies = <<"_area_based_merge">>
    /\ features = NeverSet
    /\ buildings # <<>>
    /\ result = <<>>

\* no index occurs twice in s
NoRepeat(s) == Cardinality(Range(s)) = Len(s)

\* C28: both greedy loops terminate.  In the stack traversal an index is in
\* visited before it is pushed and is pushed at most once; a pass of the grow
\* loop is followed by another only if it added an index to visited, and no
\* index is absorbed twice; every run reaches its return (or raises).
C28_LoopsTerminate ==
    /\ [](pc = "build_cluster" =>
              /\ NoRepeat(cluster \o stack)
              /\ Range(cluster \o stack) \subseteq visited)
    /\ [](pc = "grow" =>
              /\ NoRepeat(cluster)
              /\ Range(cluster) \subseteq visited
              /\ Len(cluster) <= Len(small))
    /\ [][(pc = "grow" /\ pc' = "grow" /\ growing') =>
              (visited \subseteq visited' /\ visited' # visited)]_vars
    /\ <>Returned

\* C28 witness: a grow loop that absorbed a footprint has ended with a
\* pass that absorbed nothing, below the threshold
C28_Witness ==
    /\ pc = "grow"
    /\ ~growing
    /\ Len(cluster) = 2
    /\ area(cluster_union) < AREA_THRESHOLD
    /\ Len(small) = 3

\* C29: in distance mode and in area-threshold mode the height of every
\* returned record whose members have positive area is not lower than the
\* smallest member height and not higher than the largest, and the height
\* of a record of one footprint is that footprint's height.
C29_HeightBetweenMembers ==
    pc = "done" =>
        \A k \in 1..Len(result) :
            /\ Len(members[k]) = 1 =>
                   result[k]["height"] = OwnHeight(members[k][1])
            /\ (\A a \in Range(members[k]) :
                    Len(InputFootprints[a]["coords"]) >= 3
                    /\ QLess(<<0, 1>>, OwnArea(a))) =>
                   /\ \E a \in Range(members[k]) :
                          QLeq(OwnHeight(a), result[k]["height"])
                   /\ \E a \in Range(members[k]) :
                          QLeq(result[k]["height"], OwnHeight(a))

\* C29 witness: a record merged from footprints of heights 10 and 30 whose
\* height lies strictly between the two
C29_Witness ==
    /\ pc = "done"
    /\ \E k \in 1..Len(result) :
           /\ Len(members[k]) >= 2
           /\ {OwnHeight(a) : a \in Range(members[k])} = {<<10, 1>>, <<30, 1>>}
           /\ QLess(<<10, 1>>, result[k]["height"])
           /\ QLess(result[k]["height"], <<30, 1>>)

\* C30: the distance merge of lib/style_manager.py and the one of
\* lib/style/building_merger.py visit the footprints in the same order and
\* return the same sequence of records: same members, heights, is_cluster
\* and size, a record of one footprint being that footprint's record.
C30_DistanceMergesEquivalent ==
    (DistanceMode /\ pc = "done") =>
        LET other == _merge_buildings_by_distance(buildings, barrier_union,
                                                  style.merge_distance)
        IN  /\ other.members = members
            /\ Len(other.clusters) = Len(result)
            /\ \A k \in 1..Len(result) :
                   /\ other.clusters[k]["height"] = result[k]["height"]
                   /\ is_cluster(other.clusters[k]) = is_cluster(result[k])
                   /\ Get(other.clusters[k], "size", 1) = Get(result[k], "size", 1)
                   /\ Len(members[k]) = 1 => other.clusters[k] = result[k]

\* C30 witness: behind a barrier that lies between the first two of three
\* footprints, the run returned the first alone and the other two merged
C30_Witness ==
    /\ DistanceRun
    /\ pc = "done"
    /\ ~barrier_union.is_none
    /\ members = << <<1>>, <<2, 3>> >>
    /\ CentroidsWithin(1, 2)
    /\ _merge_buildings_by_distance(buildings, barrier_union,
                                    style.merge_distance).members = members

====
